---- MODULE Spec2Model ----
(***************************************************************************)
(* Model of drivers/clk/clk-gpio.c: the GPIO controlled clock gate         *)
(* (clk_gpio_enable / clk_gpio_disable / clk_gpio_is_enabled), its         *)
(* registration with rollback (clk_register_gpio) and the delayed,         *)
(* mutex-guarded registration (of_clk_gpio_delayed_register_get).          *)
(*                                                                         *)
(* Pointers are integers: NULL is 0, a valid struct clk * is a positive    *)
(* handle, ERR_PTR(-e) is the negative integer -e.                         *)
(***************************************************************************)
EXTENDS Integers, Sequences, FiniteSets, TLC

\* ---------------------------------------------------------------- bounds
NThreads == 2
MaxCalls == 3
MaxRegCalls == 2

\* ------------------------------------------------------------- constants
EPROBE_DEFER == 517
ENOMEM == 12
EINVAL == 22
EBUSY == 16
EEXIST == 17
OF_GPIO_ACTIVE_LOW == 1
GPIOF_OUT_INIT_LOW == 0
GPIOF_OUT_INIT_HIGH == 2
GPIOF_INIT_HIGH == 2

NULL == 0
Threads == 1..NThreads
\* the GPIO line numbers the callers and the device tree may name
Gpios == {0, 1}
\* gpioOwner values: FREE, FOREIGN (a foreign driver) or a positive request token
FREE == 0
FOREIGN == -1

\* inputs: what the collaborators may answer
LookupErrs == {EPROBE_DEFER, EINVAL}
ClkRegisterErrs == {EEXIST}
Devs == {0, 1}

VARIABLES
    pc,         \* pc[t]: position of thread t
    loc,        \* loc[t]: arguments and locals of the call thread t is in
    ret,        \* ret[t]: value the last clk_register_gpio call of t returned
    lock,       \* data->lock: 0 when free, else the owning thread
    data_clk,   \* data->clk: the cached handle, NULL until resolved
    node,       \* data->node: the "enable-gpios" property (gpio, flags)
    faults,     \* TRUE while the collaborators may answer with an error
    gpioOwner,  \* per GPIO line: FREE, FOREIGN or the token of the request
    gpioLevel,  \* per GPIO line: the output level, 0 or 1
    heap,       \* [live, devm]: live struct clk_gpio records, device-managed ones
    devres,     \* request tokens of GPIO lines held as device-managed resources
    gate,       \* registered clocks: gate[h] is the clk_gpio behind handle h
    query,      \* <<h, v>>: the last clk_gpio_is_enabled call made since a
                \* line was last written and its value, <<0, -1>> if none
    lastWrite,  \* per GPIO line: <<operation, who, again>>, the operation that
                \* last wrote its level and whether it repeated the one before
    cnt,        \* cnt[t]: collaborator calls made by the call thread t is in
    tot,        \* collaborator calls made in total; fail counts the failures
                \* other than EBUSY for a line requested through this file
    trace       \* the finished of_clk_gpio_delayed_register_get calls, in
                \* order of completion

vars == <<pc, loc, ret, lock, data_clk, node, faults, gpioOwner, gpioLevel, heap,
          devres, gate, query, lastWrite, cnt, tot, trace>>

ZeroCnt == [lookup |-> 0, req |-> 0, reqOk |-> 0, alloc |-> 0, allocOk |-> 0,
            reg |-> 0, regOk |-> 0, gfree |-> 0, gfreeOther |-> 0,
            kfree |-> 0, log |-> 0, logReg |-> 0]

ZeroLoc == [caller |-> "none", dev |-> 0, gpio |-> 0, active_low |-> FALSE,
            err |-> 0, tok |-> 0, clk_gpio |-> NULL, clk |-> NULL,
            startClk |-> NULL, regErr |-> 0, afterFaults |-> FALSE,
            cache |-> NULL, seq |-> 0, reqBefore |-> 0]

\* ERR_PTR / IS_ERR of linux/err.h as used at lines 97, 109, 125, 178, 187
ERR_PTR(e) == e
IS_ERR(p) == p < 0

Bump(c, f) == [c EXCEPT ![f] = @ + 1]

\* -------------------------------------------------------- the clock gate

\* clk_gpio_enable_value with the polarity forgotten
clk_gpio_enable_value_nopol(active_low) == 1

\* the level clk_gpio_enable writes (line 35)
clk_gpio_enable_value(active_low) == IF active_low THEN 0 ELSE 1

\* clk_gpio_disable_value with the polarity forgotten
clk_gpio_disable_value_nopol(active_low) == 0

\* the level clk_gpio_disable writes (line 45)
clk_gpio_disable_value(active_low) == IF active_low THEN 1 ELSE 0

\* the value clk_gpio_is_enabled returns for a level read back (line 55)
clk_gpio_is_enabled_value(active_low, value) ==
    IF active_low THEN (IF value = 0 THEN 1 ELSE 0) ELSE value

\* clk_gpio_is_enabled(hw) on the live level of the line
clk_gpio_is_enabled(h) ==
    clk_gpio_is_enabled_value(gate[h].active_low, gpioLevel[gate[h].gpio])

Handles == 1..Len(gate)

\* no clk_gpio_is_enabled call since the last write of a line
NoQuery == <<0, -1>>

\* the lastWrite entry of line g once `who` has done `op` on it
Wrote(g, op, who) ==
    <<op, who, lastWrite[g][1] = op /\ lastWrite[g][2] = who>>

GateFrame == UNCHANGED <<pc, loc, ret, lock, data_clk, node, faults, gpioOwner, heap,
                         devres, gate, cnt, tot, trace>>

\* clk_gpio_enable inverting the line instead of driving the active level
clk_gpio_enable_toggle(h) ==
    /\ h \in Handles
    /\ gpioLevel' = [gpioLevel EXCEPT ![gate[h].gpio] = 1 - @]
    /\ lastWrite' = [lastWrite EXCEPT ![gate[h].gpio] =
                        Wrote(gate[h].gpio, "enable", h)]
    /\ query' = NoQuery
    /\ GateFrame

clk_gpio_enable(h) ==
    /\ h \in Handles
    /\ gpioLevel' = [gpioLevel EXCEPT ![gate[h].gpio] =
                        clk_gpio_enable_value(gate[h].active_low)]
    /\ lastWrite' = [lastWrite EXCEPT ![gate[h].gpio] =
                        Wrote(gate[h].gpio, "enable", h)]
    /\ query' = NoQuery
    /\ GateFrame

clk_gpio_disable(h) ==
    /\ h \in Handles
    /\ gpioLevel' = [gpioLevel EXCEPT ![gate[h].gpio] =
                        clk_gpio_disable_value(gate[h].active_low)]
    /\ lastWrite' = [lastWrite EXCEPT ![gate[h].gpio] =
                        Wrote(gate[h].gpio, "disable", h)]
    /\ query' = NoQuery
    /\ GateFrame

\* clk_gpio_is_enabled answering from the last operation, not from the line
IsEnabled_last_op(h) ==
    /\ h \in Handles
    /\ query' = <<h, IF lastWrite[gate[h].gpio][1] = "enable" THEN 1 ELSE 0>>
    /\ UNCHANGED <<gpioLevel, lastWrite>>
    /\ GateFrame

IsEnabled(h) ==
    /\ h \in Handles
    /\ query' = <<h, clk_gpio_is_enabled(h)>>
    /\ UNCHANGED <<gpioLevel, lastWrite>>
    /\ GateFrame

\* another agent driving the line of a gate with gpio_set_value
ExternalWrite(h, v) ==
    /\ h \in Handles
    /\ gpioLevel[gate[h].gpio] # v
    /\ gpioLevel' = [gpioLevel EXCEPT ![gate[h].gpio] = v]
    /\ lastWrite' = [lastWrite EXCEPT ![gate[h].gpio] = <<"extern", 0, FALSE>>]
    /\ query' = NoQuery
    /\ GateFrame

\* ------------------------------------------------------ clk_register_gpio

\* lines 84-87: the flags handed to gpio_request_one
InitFlags(active_low) ==
    IF active_low THEN GPIOF_OUT_INIT_LOW ELSE GPIOF_OUT_INIT_HIGH

\* the level gpio_request_one drives for these flags
InitLevel(gpio_flags) == IF (gpio_flags \div GPIOF_INIT_HIGH) % 2 = 1 THEN 1 ELSE 0

\* what (devm_)gpio_request_one may answer for a line: 0 or an errno
RequestResults(g) ==
    IF gpioOwner[g] # FREE THEN {EBUSY}
    ELSE IF faults THEN {0, EINVAL} ELSE {0}

\* return of clk_register_gpio to its caller (lines 126, 135)
Return(t, clk) ==
    IF loc[t].caller = "resolve"
    THEN /\ pc' = [pc EXCEPT ![t] = "store"]
         /\ UNCHANGED ret
    ELSE /\ pc' = [pc EXCEPT ![t] = "idle"]
         /\ ret' = [ret EXCEPT ![t] = clk]

\* lines 84-99: request the GPIO line as an output at its initial level
RequestGpio(t) ==
    /\ pc[t] = "request"
    /\ \E err \in RequestResults(loc[t].gpio) :
        LET g == loc[t].gpio
            newTok == tot.reqOk + 1
        IN IF err # 0
           THEN /\ loc' = [loc EXCEPT ![t].err = err, ![t].clk = ERR_PTR(-err)]
                /\ cnt' = [cnt EXCEPT ![t] = Bump(Bump(@, "req"), "logReg")]
                /\ tot' = IF gpioOwner[g] > 0 THEN Bump(tot, "req")
                           ELSE Bump(Bump(tot, "req"), "fail")
                /\ pc' = [pc EXCEPT ![t] = "err"]
                /\ UNCHANGED <<gpioOwner, gpioLevel, lastWrite, devres, query>>
           ELSE /\ loc' = [loc EXCEPT ![t].tok = newTok]
                /\ gpioOwner' = [gpioOwner EXCEPT ![g] = newTok]
                /\ gpioLevel' = [gpioLevel EXCEPT ![g] =
                                    InitLevel(InitFlags(loc[t].active_low))]
                /\ lastWrite' = [lastWrite EXCEPT ![g] = <<"init", newTok, FALSE>>]
                /\ devres' = IF loc[t].dev # NULL THEN devres \cup {newTok}
                             ELSE devres
                /\ cnt' = [cnt EXCEPT ![t] = Bump(Bump(@, "req"), "reqOk")]
                /\ tot' = Bump(Bump(tot, "req"), "reqOk")
                /\ query' = NoQuery
                /\ pc' = [pc EXCEPT ![t] = "alloc"]
    /\ UNCHANGED <<ret, lock, data_clk, node, faults, heap, gate, trace>>

\* what (devm_)kzalloc may answer: a record (TRUE) or NULL (FALSE)
AllocResults == IF faults THEN BOOLEAN ELSE {TRUE}

\* lines 101-111: allocate the struct clk_gpio
Alloc(t) ==
    /\ pc[t] = "alloc"
    /\ \E ok \in AllocResults :
        LET p == tot.allocOk + 1
        IN IF ~ok
           THEN /\ loc' = [loc EXCEPT ![t].clk = ERR_PTR(-ENOMEM)]
                /\ cnt' = [cnt EXCEPT ![t] = Bump(Bump(@, "alloc"), "logReg")]
                /\ tot' = Bump(tot, "fail")
                /\ pc' = [pc EXCEPT ![t] = "err"]
                /\ UNCHANGED heap
           ELSE /\ loc' = [loc EXCEPT ![t].clk_gpio = p]
                /\ heap' = [live |-> heap.live \cup {p},
                            devm |-> IF loc[t].dev # NULL
                                     THEN heap.devm \cup {p} ELSE heap.devm]
                /\ cnt' = [cnt EXCEPT ![t] = Bump(Bump(@, "alloc"), "allocOk")]
                /\ tot' = Bump(tot, "allocOk")
                /\ pc' = [pc EXCEPT ![t] = "register"]
    /\ UNCHANGED <<ret, lock, data_clk, node, faults, gpioOwner, gpioLevel, devres,
                   gate, query, lastWrite, trace>>

\* kfree left out: the record stays allocated
kfree_noop(h, p) == h

\* gpio_free left out: the line stays requested
gpio_free_noop(owner, g) == owner

\* kfree(clk_gpio) of line 129
kfree(h, p) == [h EXCEPT !.live = @ \ {p}]

\* gpio_free(gpio) of line 133: the line loses its owner, whoever that is
gpio_free(owner, g) == [owner EXCEPT ![g] = FREE]

\* what clk_register may answer: 0 for a handle, or an errno
ClkRegisterResults == IF faults THEN {0} \cup ClkRegisterErrs ELSE {0}

\* the failure of clk_register returning at once, past the error label
ClkRegister_early_return(t) ==
    /\ pc[t] = "register"
    /\ \E err \in ClkRegisterResults :
        IF err = 0
        THEN LET h == Len(gate) + 1
             IN /\ gate' = Append(gate, [gpio |-> loc[t].gpio,
                                         active_low |-> loc[t].active_low,
                                         rec |-> loc[t].clk_gpio,
                                         tok |-> loc[t].tok])
                /\ loc' = [loc EXCEPT ![t].clk = h]
                /\ cnt' = [cnt EXCEPT ![t] = Bump(Bump(@, "reg"), "regOk")]
                /\ tot' = Bump(Bump(tot, "reg"), "regOk")
                /\ Return(t, h)
                /\ UNCHANGED heap
        ELSE /\ loc' = [loc EXCEPT ![t].clk = ERR_PTR(-err), ![t].regErr = err]
             /\ heap' = IF loc[t].dev = NULL
                        THEN kfree(heap, loc[t].clk_gpio) ELSE heap
             /\ cnt' = [cnt EXCEPT ![t] = Bump(@, "reg")]
             /\ tot' = Bump(Bump(tot, "reg"), "fail")
             /\ Return(t, ERR_PTR(-err))
             /\ UNCHANGED gate
    /\ UNCHANGED <<lock, data_clk, node, faults, gpioOwner, gpioLevel, devres,
                   query, lastWrite, trace>>

\* lines 113-129: fill the record in, clk_register, free the record on error
ClkRegister(t) ==
    /\ pc[t] = "register"
    /\ \E err \in ClkRegisterResults :
        IF err = 0
        THEN LET h == Len(gate) + 1
             IN /\ gate' = Append(gate, [gpio |-> loc[t].gpio,
                                         active_low |-> loc[t].active_low,
                                         rec |-> loc[t].clk_gpio,
                                         tok |-> loc[t].tok])
                /\ UNCHANGED query
                /\ loc' = [loc EXCEPT ![t].clk = h]
                /\ cnt' = [cnt EXCEPT ![t] = Bump(Bump(@, "reg"), "regOk")]
                /\ tot' = Bump(Bump(tot, "reg"), "regOk")
                /\ Return(t, h)
                /\ UNCHANGED heap
        ELSE /\ loc' = [loc EXCEPT ![t].clk = ERR_PTR(-err), ![t].regErr = err]
             /\ IF loc[t].dev = NULL
                THEN /\ heap' = kfree(heap, loc[t].clk_gpio)
                     /\ cnt' = [cnt EXCEPT ![t] = Bump(Bump(@, "reg"), "kfree")]
                ELSE /\ heap' = heap
                     /\ cnt' = [cnt EXCEPT ![t] = Bump(@, "reg")]
             /\ tot' = Bump(Bump(tot, "reg"), "fail")
             /\ pc' = [pc EXCEPT ![t] = "err"]
             /\ UNCHANGED <<gate, query, ret>>
    /\ UNCHANGED <<lock, data_clk, node, faults, gpioOwner, gpioLevel, devres,
                   lastWrite, trace>>

\* the error label returning without releasing the GPIO line
ErrLabel_nofree(t) ==
    /\ pc[t] = "err"
    /\ Return(t, loc[t].clk)
    /\ UNCHANGED <<loc, lock, data_clk, node, faults, gpioOwner, gpioLevel, heap,
                   devres, gate, query, lastWrite, cnt, tot, trace>>

\* lines 131-135: label clk_register_gpio_err
ErrLabel(t) ==
    /\ pc[t] = "err"
    /\ IF loc[t].dev = NULL
       THEN /\ gpioOwner' = gpio_free(gpioOwner, loc[t].gpio)
            /\ cnt' = [cnt EXCEPT ![t] =
                          IF loc[t].tok # 0 /\ gpioOwner[loc[t].gpio] = loc[t].tok
                          THEN Bump(@, "gfree")
                          ELSE Bump(Bump(@, "gfree"), "gfreeOther")]
       ELSE UNCHANGED <<gpioOwner, cnt>>
    /\ Return(t, loc[t].clk)
    /\ UNCHANGED <<loc, lock, data_clk, node, faults, gpioLevel, heap, devres, gate,
                   query, lastWrite, tot, trace>>

\* a direct call clk_register_gpio(dev, name, parent_name, flags, gpio, active_low)
CallRegister(t) ==
    /\ pc[t] = "idle"
    /\ tot.calls < MaxRegCalls
    /\ \E dev \in Devs, g \in Gpios, al \in BOOLEAN :
        loc' = [loc EXCEPT ![t] = [ZeroLoc EXCEPT !.caller = "direct",
                                       !.dev = dev, !.gpio = g,
                                       !.active_low = al,
                                       !.clk = ERR_PTR(-EINVAL)]]
    /\ cnt' = [cnt EXCEPT ![t] = ZeroCnt]
    /\ tot' = Bump(tot, "calls")
    /\ pc' = [pc EXCEPT ![t] = "request"]
    /\ UNCHANGED <<ret, lock, data_clk, node, faults, gpioOwner, gpioLevel, heap,
                   devres, gate, query, lastWrite, trace>>

\* ---------------------------------------- of_clk_gpio_delayed_register_get

\* entry of of_clk_gpio_delayed_register_get(clkspec, data) (lines 151-161)
CallResolve(t) ==
    /\ pc[t] = "idle"
    /\ tot.calls < MaxCalls
    /\ loc' = [loc EXCEPT ![t] = [ZeroLoc EXCEPT !.caller = "resolve",
                                      !.startClk = data_clk,
                                      !.afterFaults = ~faults]]
    /\ cnt' = [cnt EXCEPT ![t] = ZeroCnt]
    /\ tot' = Bump(tot, "calls")
    /\ pc' = [pc EXCEPT ![t] = "lock"]
    /\ UNCHANGED <<ret, lock, data_clk, node, faults, gpioOwner, gpioLevel, heap,
                   devres, gate, query, lastWrite, trace>>

\* mutex_unlock left out: the mutex stays locked
mutex_unlock_noop(l, t) == l

\* the place of a call in the order in which the calls get the mutex: one
\* more than the calls that got it before, finished or still returning
LockSeq ==
    Len(trace) + Cardinality({u \in Threads : pc[u] \notin {"idle", "lock"}}) + 1

\* mutex_lock that does not wait for the owner to unlock
mutex_lock_noblock(t) ==
    /\ pc[t] = "lock"
    /\ lock' = t
    /\ loc' = [loc EXCEPT ![t].seq = LockSeq, ![t].reqBefore = tot.req]
    /\ pc' = [pc EXCEPT ![t] = "check"]
    /\ UNCHANGED <<ret, data_clk, node, faults, gpioOwner, gpioLevel, heap,
                   devres, gate, query, lastWrite, cnt, tot, trace>>

\* line 163: mutex_lock(&data->lock)
mutex_lock(t) ==
    /\ pc[t] = "lock"
    /\ lock = 0
    /\ lock' = t
    /\ loc' = [loc EXCEPT ![t].seq = LockSeq, ![t].reqBefore = tot.req]
    /\ pc' = [pc EXCEPT ![t] = "check"]
    /\ UNCHANGED <<ret, data_clk, node, faults, gpioOwner, gpioLevel, heap,
                   devres, gate, query, lastWrite, cnt, tot, trace>>

\* line 193 / 166 / 174 / 188: mutex_unlock(&data->lock)
mutex_unlock(l, t) == IF l = t THEN 0 ELSE l

\* the cache check never taking the fast path
CacheHit_never == FALSE

\* line 165: if (data->clk)
CacheHit == data_clk # NULL

\* the cache check dropping the lock before the slow path as well
CheckCache_early_unlock(t) ==
    /\ pc[t] = "check"
    /\ lock' = mutex_unlock(lock, t)
    /\ pc' = [pc EXCEPT ![t] = IF CacheHit THEN "cached" ELSE "lookup"]
    /\ UNCHANGED <<loc, ret, data_clk, node, faults, gpioOwner, gpioLevel, heap,
                   devres, gate, query, lastWrite, cnt, tot, trace>>

\* the fast path unlocking but falling through to the lookup
CheckCache_fallthrough(t) ==
    /\ pc[t] = "check"
    /\ lock' = IF CacheHit THEN mutex_unlock(lock, t) ELSE lock
    /\ pc' = [pc EXCEPT ![t] = "lookup"]
    /\ UNCHANGED <<loc, ret, data_clk, node, faults, gpioOwner, gpioLevel, heap,
                   devres, gate, query, lastWrite, cnt, tot, trace>>

\* lines 165-166: the cache check, and the unlock of the fast path
CheckCache(t) ==
    /\ pc[t] = "check"
    /\ IF CacheHit
       THEN /\ lock' = mutex_unlock(lock, t)
            /\ pc' = [pc EXCEPT ![t] = "cached"]
       ELSE /\ pc' = [pc EXCEPT ![t] = "lookup"]
            /\ UNCHANGED lock
    /\ UNCHANGED <<loc, ret, data_clk, node, faults, gpioOwner, gpioLevel, heap,
                   devres, gate, query, lastWrite, cnt, tot, trace>>

\* the record of a finished call: its return value, the collaborator calls
\* it made, the errno the lookup or the GPIO request reported, the errno
\* clk_register reported, data->clk when it started and when it unlocked,
\* its place in the order of the mutex, the number of GPIO requests made
\* before it got the mutex, and whether it started after the collaborators
\* stopped failing
Finished(t, v, c, cache) ==
    [ret |-> v, cnt |-> c, err |-> loc[t].err, regErr |-> loc[t].regErr,
     startClk |-> loc[t].startClk, cache |-> cache, seq |-> loc[t].seq,
     reqBefore |-> loc[t].reqBefore, afterFaults |-> loc[t].afterFaults]

\* line 167: return data->clk, read after the unlock
ReturnCached(t) ==
    /\ pc[t] = "cached"
    /\ trace' = Append(trace, Finished(t, data_clk, cnt[t], data_clk))
    /\ loc' = [loc EXCEPT ![t] = ZeroLoc]
    /\ cnt' = [cnt EXCEPT ![t] = ZeroCnt]
    /\ pc' = [pc EXCEPT ![t] = "idle"]
    /\ UNCHANGED <<ret, lock, data_clk, node, faults, gpioOwner, gpioLevel, heap,
                   devres, gate, query, lastWrite, tot>>

\* the lookup error stored into data->clk
CacheAfterLookupError_stored(gpio) == ERR_PTR(gpio)

\* lines 173-179: data->clk after the error exit of the lookup, left alone
CacheAfterLookupError(gpio) == data_clk

\* every lookup error logged, -EPROBE_DEFER included
LookupLogged_always(gpio) == TRUE

\* line 175: the lookup errors that are logged with pr_err
LookupLogged(gpio) == gpio # -EPROBE_DEFER

\* the polarity read the wrong way round
ActiveLow_inverted(of_flags) ==
    (of_flags % (2 * OF_GPIO_ACTIVE_LOW)) \div OF_GPIO_ACTIVE_LOW = 0

\* line 181: active_low = of_flags & OF_GPIO_ACTIVE_LOW
ActiveLow(of_flags) ==
    (of_flags % (2 * OF_GPIO_ACTIVE_LOW)) \div OF_GPIO_ACTIVE_LOW = 1

\* what of_get_named_gpio_flags may answer: the line of the node or -errno
LookupResults ==
    IF faults THEN {node.gpio} \cup {-e : e \in LookupErrs} ELSE {node.gpio}

\* lines 170-174 and 181-183: the "enable-gpios" lookup, the unlock of its
\* error exit, the polarity
Lookup(t) ==
    /\ pc[t] = "lookup"
    /\ \E gpio \in LookupResults :
        IF gpio < 0
        THEN /\ lock' = mutex_unlock(lock, t)
             /\ tot' = Bump(tot, "fail")
             /\ data_clk' = CacheAfterLookupError(gpio)
             /\ loc' = [loc EXCEPT ![t].err = -gpio,
                                   ![t].clk = ERR_PTR(gpio),
                                   ![t].cache = CacheAfterLookupError(gpio)]
             /\ pc' = [pc EXCEPT ![t] = "lookup_err"]
        ELSE /\ loc' = [loc EXCEPT ![t].gpio = gpio,
                            ![t].active_low = ActiveLow(node.flags),
                            ![t].dev = NULL,
                            ![t].clk = ERR_PTR(-EINVAL)]
             /\ pc' = [pc EXCEPT ![t] = "request"]
             /\ UNCHANGED <<lock, tot, data_clk>>
    /\ cnt' = [cnt EXCEPT ![t] = Bump(@, "lookup")]
    /\ UNCHANGED <<ret, node, faults, gpioOwner, gpioLevel, heap, devres, gate,
                   query, lastWrite, trace>>

\* lines 175-178: after the unlock, the pr_err and return ERR_PTR(gpio)
LookupErrReturn(t) ==
    /\ pc[t] = "lookup_err"
    /\ LET c == IF LookupLogged(loc[t].clk) THEN Bump(cnt[t], "log")
                ELSE cnt[t]
       IN trace' = Append(trace, Finished(t, loc[t].clk, c, loc[t].cache))
    /\ loc' = [loc EXCEPT ![t] = ZeroLoc]
    /\ cnt' = [cnt EXCEPT ![t] = ZeroCnt]
    /\ pc' = [pc EXCEPT ![t] = "idle"]
    /\ UNCHANGED <<ret, lock, data_clk, node, faults, gpioOwner, gpioLevel,
                   heap, devres, gate, query, lastWrite, tot>>

\* the store without the IS_ERR test: an error pointer ends up in data->clk
Store_caches_error(t) ==
    /\ pc[t] = "store"
    /\ data_clk' = loc[t].clk
    /\ loc' = [loc EXCEPT ![t].cache = loc[t].clk]
    /\ lock' = mutex_unlock(lock, t)
    /\ pc' = [pc EXCEPT ![t] = "return"]
    /\ UNCHANGED <<ret, node, faults, gpioOwner, gpioLevel, heap, devres, gate,
                   query, lastWrite, cnt, tot, trace>>

\* the error exit looping back to the lookup instead of returning
Store_retry(t) ==
    /\ pc[t] = "store"
    /\ IF IS_ERR(loc[t].clk)
       THEN /\ pc' = [pc EXCEPT ![t] = "lookup"]
            /\ UNCHANGED <<data_clk, lock, loc>>
       ELSE /\ data_clk' = loc[t].clk
            /\ loc' = [loc EXCEPT ![t].cache = loc[t].clk]
            /\ lock' = mutex_unlock(lock, t)
            /\ pc' = [pc EXCEPT ![t] = "return"]
    /\ UNCHANGED <<ret, node, faults, gpioOwner, gpioLevel, heap, devres, gate,
                   query, lastWrite, cnt, tot, trace>>

\* lines 187-188 and 192-193: the IS_ERR test, the store into data->clk on
\* success, and the unlock of either exit
Store(t) ==
    /\ pc[t] = "store"
    /\ LET clk == loc[t].clk
           cache == IF IS_ERR(clk) THEN data_clk ELSE clk
       IN /\ data_clk' = cache
          /\ loc' = [loc EXCEPT ![t].cache = cache]
    /\ lock' = mutex_unlock(lock, t)
    /\ pc' = [pc EXCEPT ![t] = "return"]
    /\ UNCHANGED <<ret, node, faults, gpioOwner, gpioLevel, heap, devres, gate,
                   query, lastWrite, cnt, tot, trace>>

\* lines 189 and 195: return clk, after the unlock
StoreReturn(t) ==
    /\ pc[t] = "return"
    /\ trace' = Append(trace, Finished(t, loc[t].clk, cnt[t], loc[t].cache))
    /\ loc' = [loc EXCEPT ![t] = ZeroLoc]
    /\ cnt' = [cnt EXCEPT ![t] = ZeroCnt]
    /\ pc' = [pc EXCEPT ![t] = "idle"]
    /\ UNCHANGED <<ret, lock, data_clk, node, faults, gpioOwner, gpioLevel,
                   heap, devres, gate, query, lastWrite, tot>>

\* ------------------------------------------------------------ the system

\* of_gpio_clk_setup (lines 201-216): data->node set, mutex initialised,
\* data->clk NULL from kzalloc; the GPIO lines are free or held elsewhere
Init ==
    /\ pc = [t \in Threads |-> "idle"]
    /\ loc = [t \in Threads |-> ZeroLoc]
    /\ ret = [t \in Threads |-> NULL]
    /\ lock = 0
    /\ data_clk = NULL
    /\ node \in [gpio : Gpios, flags : {0, OF_GPIO_ACTIVE_LOW}]
    /\ faults = TRUE
    /\ gpioOwner \in [Gpios -> {FREE, FOREIGN}]
    /\ gpioLevel = [g \in Gpios |-> 0]
    /\ heap = [live |-> {}, devm |-> {}]
    /\ devres = {}
    /\ gate = <<>>
    /\ query = NoQuery
    /\ lastWrite = [g \in Gpios |-> <<"none", 0, FALSE>>]
    /\ cnt = [t \in Threads |-> ZeroCnt]
    /\ tot = [calls |-> 0, fail |-> 0, req |-> 0, reqOk |-> 0, allocOk |-> 0,
              reg |-> 0, regOk |-> 0]
    /\ trace = <<>>

\* threads calling the clock provider callback of one delayed-register data,
\* and the clock framework using the registered gate
Next ==
    \/ \E t \in Threads : CallResolve(t)
    \/ \E t \in Threads : mutex_lock(t)
    \/ \E t \in Threads : CheckCache(t)
    \/ \E t \in Threads : ReturnCached(t)
    \/ \E t \in Threads : Lookup(t)
    \/ \E t \in Threads : LookupErrReturn(t)
    \/ \E t \in Threads : RequestGpio(t)
    \/ \E t \in Threads : Alloc(t)
    \/ \E t \in Threads : ClkRegister(t)
    \/ \E t \in Threads : ErrLabel(t)
    \/ \E t \in Threads : Store(t)
    \/ \E t \in Threads : StoreReturn(t)
    \/ \E h \in Handles : clk_gpio_enable(h)
    \/ \E h \in Handles : clk_gpio_disable(h)
    \/ \E h \in Handles : IsEnabled(h)

\* one delayed-register data on line 1, active low, the line free or held
\* by another owner; the other line plays no part and is free
InitSpec ==
    /\ Init
    /\ node = [gpio |-> 1, flags |-> OF_GPIO_ACTIVE_LOW]
    /\ gpioOwner[0] = FREE

Spec == InitSpec /\ [][Next]_vars

\* the transient faults end: lines held by other owners are released, and
\* from here on the lookup, the request, the allocation and clk_register
\* answer with success whenever they can
FaultsEnd ==
    /\ faults
    /\ faults' = FALSE
    /\ gpioOwner' = [g \in Gpios |->
                        IF gpioOwner[g] = FOREIGN THEN FREE ELSE gpioOwner[g]]
    /\ UNCHANGED <<pc, loc, ret, lock, data_clk, node, gpioLevel, heap,
                   devres, gate, query, lastWrite, cnt, tot, trace>>

\* the steps of a call of thread t once it holds the mutex or has released it
Step(t) ==
    \/ CheckCache(t)
    \/ ReturnCached(t)
    \/ Lookup(t)
    \/ LookupErrReturn(t)
    \/ RequestGpio(t)
    \/ Alloc(t)
    \/ ClkRegister(t)
    \/ ErrLabel(t)
    \/ Store(t)
    \/ StoreReturn(t)

\* the threads that call the clock provider callback under fair scheduling
FairThreads == {1, 2}

\* the callers of the clock provider callback alone, with faults that end
NextFair ==
    \/ \E t \in FairThreads : CallResolve(t)
    \/ \E t \in FairThreads : mutex_lock(t)
    \/ \E t \in FairThreads : Step(t)
    \/ FaultsEnd

\* every thread keeps running, and a thread waiting for the mutex gets it
\* when it is free again and again
Fairness ==
    \A t \in FairThreads : WF_vars(Step(t)) /\ SF_vars(mutex_lock(t))

\* one node, active high, on line 0; the other line plays no part
InitFair ==
    /\ Init
    /\ node = [gpio |-> 0, flags |-> 0]
    /\ gpioOwner[1] = FREE

SpecFair == InitFair /\ [][NextFair]_vars /\ Fairness

\* a probe path calling the exported clk_register_gpio, with and without a
\* device, one call after the other, and the clock framework using the gates
RegThreads == {1}

NextReg ==
    \/ \E t \in RegThreads : CallRegister(t)
    \/ \E t \in RegThreads : RequestGpio(t)
    \/ \E t \in RegThreads : Alloc(t)
    \/ \E t \in RegThreads : ClkRegister(t)
    \/ \E t \in RegThreads : ErrLabel(t)
    \/ \E h \in Handles : clk_gpio_enable(h)
    \/ \E h \in Handles : clk_gpio_disable(h)
    \/ \E h \in Handles : IsEnabled(h)
    \/ \E h \in Handles, v \in {0, 1} : ExternalWrite(h, v)

\* no delayed-register data is involved: the node is left at one value
InitReg == Init /\ node = [gpio |-> 0, flags |-> 0]

SpecReg == InitReg /\ [][NextReg]_vars

\* ============================================================ properties

\* the places of a call between the cache check and the end of construction
ConstructionPcs == {"lookup", "request", "alloc", "register", "err", "store"}

\* a direct clk_register_gpio call of thread t has returned
RegDone(t) == pc[t] = "idle" /\ loc[t].caller = "direct"

\* C1: when no collaborator fails, concurrent calls of
\* of_clk_gpio_delayed_register_get all return the same handle and the GPIO
\* line is requested once and the clock registered once in total.
C1_OneRegistration ==
    tot.fail = 0 =>
        /\ tot.req <= 1
        /\ tot.reg <= 1
        /\ \A i \in DOMAIN trace :
              /\ trace[i].ret > 0
              /\ trace[i].ret = trace[1].ret
              /\ trace[i].ret = data_clk
        /\ trace # <<>> => tot.req = 1 /\ tot.reg = 1

\* every thread has finished a call it started before the clock was resolved
C1_Witness ==
    /\ tot.fail = 0
    /\ Len(trace) >= NThreads
    /\ \A i \in 1..NThreads : trace[i].startClk = NULL /\ trace[i].ret = data_clk
    /\ \E i \in 1..NThreads : trace[i].cnt.lookup = 0
    /\ tot.req = 1 /\ tot.reg = 1

\* C2: right after a successful clk_register_gpio, before any enable, the
\* line is at the inactive level and clk_gpio_is_enabled returns false.
C2_StartsDisabled ==
    \A h \in Handles :
        (lastWrite[gate[h].gpio][1] = "init"
            /\ lastWrite[gate[h].gpio][2] = gate[h].tok)
        => /\ gpioLevel[gate[h].gpio] = (IF gate[h].active_low THEN 1 ELSE 0)
           /\ clk_gpio_is_enabled(h) = 0

\* C3: once data->clk is set it never changes, and a call that starts after
\* that returns it.
C3_ResolvedIsTerminal ==
    [][/\ data_clk # NULL => data_clk' = data_clk
       /\ \A i \in DOMAIN trace' :
             trace'[i].startClk # NULL =>
                 /\ trace'[i].ret = trace'[i].startClk
                 /\ trace'[i].ret = data_clk']_vars

\* a call that started after the resolution has returned, failures before it
C3_Witness ==
    /\ tot.fail > 0
    /\ \E i \in DOMAIN trace :
          trace[i].startClk # NULL /\ trace[i].ret = data_clk

\* C4 as claimed: when clk_register fails, clk_register_gpio has released the
\* GPIO line once and freed the record once when it returns.
C4_RollbackOnRegisterFailure ==
    \A t \in RegThreads :
        (RegDone(t) /\ cnt[t].reg = 1 /\ cnt[t].regOk = 0) =>
            /\ IS_ERR(ret[t])
            /\ cnt[t].gfree = 1 /\ cnt[t].kfree = 1
            /\ gpioOwner[loc[t].gpio] # loc[t].tok
            /\ loc[t].clk_gpio \notin heap.live

\* C4 amended: that holds for a call without a device; with a device the
\* function releases neither, and both stay device-managed resources.
C4_RollbackPerDevice ==
    \A t \in RegThreads :
        (RegDone(t) /\ cnt[t].reg = 1 /\ cnt[t].regOk = 0) =>
            /\ IS_ERR(ret[t])
            /\ IF loc[t].dev = NULL
               THEN /\ cnt[t].gfree = 1 /\ cnt[t].kfree = 1
                    /\ cnt[t].gfreeOther = 0
                    /\ gpioOwner[loc[t].gpio] # loc[t].tok
                    /\ loc[t].clk_gpio \notin heap.live
               ELSE /\ cnt[t].gfree = 0 /\ cnt[t].kfree = 0
                    /\ gpioOwner[loc[t].gpio] = loc[t].tok
                    /\ loc[t].tok \in devres
                    /\ loc[t].clk_gpio \in heap.live \cap heap.devm

\* a call without a device has returned the registration error
C4_Witness ==
    \E t \in RegThreads :
        /\ RegDone(t) /\ cnt[t].reg = 1 /\ cnt[t].regOk = 0
        /\ loc[t].dev = NULL /\ ret[t] = ERR_PTR(-EEXIST)
        /\ cnt[t].reqOk = 1 /\ cnt[t].allocOk = 1

\* C5: when the GPIO request fails the call returns that error, allocates
\* nothing, registers nothing, frees no GPIO line and leaves data->clk NULL.
C5_RequestFailureIsClean ==
    \A i \in DOMAIN trace :
        (trace[i].cnt.req = 1 /\ trace[i].cnt.reqOk = 0) =>
            /\ trace[i].err # 0
            /\ trace[i].ret = ERR_PTR(-trace[i].err)
            /\ trace[i].cnt.alloc = 0
            /\ trace[i].cnt.reg = 0
            /\ trace[i].cnt.gfree = 0
            /\ trace[i].cache = NULL

\* C6 as claimed: in every clk_register_gpio call whose allocation fails, the
\* GPIO line is released before -ENOMEM is returned and nothing is registered.
C6_RollbackOnAllocFailure ==
    \A t \in RegThreads :
        (RegDone(t) /\ cnt[t].alloc = 1 /\ cnt[t].allocOk = 0) =>
            /\ ret[t] = ERR_PTR(-ENOMEM)
            /\ cnt[t].reg = 0
            /\ cnt[t].gfree = 1
            /\ gpioOwner[loc[t].gpio] # loc[t].tok

\* C6 amended: that holds for a call without a device; with a device the
\* line is not released by the function and stays a device-managed resource.
C6_AllocRollbackPerDevice ==
    \A t \in RegThreads :
        (RegDone(t) /\ cnt[t].alloc = 1 /\ cnt[t].allocOk = 0) =>
            /\ ret[t] = ERR_PTR(-ENOMEM)
            /\ cnt[t].reg = 0
            /\ cnt[t].kfree = 0
            /\ IF loc[t].dev = NULL
               THEN /\ cnt[t].gfree = 1
                    /\ cnt[t].gfreeOther = 0
                    /\ gpioOwner[loc[t].gpio] # loc[t].tok
               ELSE /\ cnt[t].gfree = 0
                    /\ gpioOwner[loc[t].gpio] = loc[t].tok
                    /\ loc[t].tok \in devres

\* a call without a device has returned -ENOMEM after acquiring the line
C6_Witness ==
    \E t \in RegThreads :
        /\ RegDone(t) /\ cnt[t].alloc = 1 /\ cnt[t].allocOk = 0
        /\ loc[t].dev = NULL /\ cnt[t].reqOk = 1
        /\ ret[t] = ERR_PTR(-ENOMEM)

\* C7: a call whose lookup answers -EPROBE_DEFER returns that with data->clk
\* still NULL and without a GPIO request, allocation or registration; when
\* the first call to get the mutex is deferred and the second one succeeds,
\* the line is requested for the first time in the second.
C7_DeferThenResolve ==
    /\ \A i \in DOMAIN trace :
          trace[i].ret = ERR_PTR(-EPROBE_DEFER) =>
              /\ trace[i].cache = NULL
              /\ trace[i].cnt.lookup = 1
              /\ trace[i].cnt.req = 0
              /\ trace[i].cnt.alloc = 0
              /\ trace[i].cnt.reg = 0
    /\ \A i, j \in DOMAIN trace :
          (/\ trace[i].seq = 1 /\ trace[i].ret = ERR_PTR(-EPROBE_DEFER)
           /\ trace[j].seq = 2 /\ trace[j].ret > 0)
          => /\ trace[i].startClk = NULL /\ trace[i].cache = NULL
             /\ trace[j].reqBefore = 0
             /\ trace[j].cnt.req = 1 /\ trace[j].cnt.reg = 1
             /\ trace[j].cache = trace[j].ret

\* the first call was deferred and the second one resolved the clock, and
\* the second returned before the first
C7_Witness ==
    /\ Len(trace) >= 2
    /\ trace[2].seq = 1 /\ trace[2].ret = ERR_PTR(-EPROBE_DEFER)
    /\ trace[1].seq = 2 /\ trace[1].ret > 0
    /\ data_clk = trace[1].ret
    /\ tot.req = 1

\* C8: for both polarities, after clk_gpio_enable clk_gpio_is_enabled returns
\* true and after clk_gpio_disable it returns false, as long as nothing else
\* wrote the line in between.
C8_RoundTrip ==
    \A h \in Handles :
        LET w == lastWrite[gate[h].gpio]
        IN /\ (w[1] = "enable" /\ w[2] = h) => clk_gpio_is_enabled(h) # 0
           /\ (w[1] = "disable" /\ w[2] = h) => clk_gpio_is_enabled(h) = 0

\* an active-low gate was enabled and then queried
C8_Witness ==
    \E h \in Handles :
        /\ gate[h].active_low
        /\ lastWrite[gate[h].gpio][1] = "enable"
        /\ lastWrite[gate[h].gpio][2] = h
        /\ query = <<h, 1>>

\* C9: a second clk_gpio_enable right after a first, or a second
\* clk_gpio_disable right after a first, changes neither the level of the
\* line nor what clk_gpio_is_enabled returns.
C9_Idempotent ==
    [][\A h \in Handles :
          LET w == lastWrite[gate[h].gpio]
          IN /\ (clk_gpio_enable(h) /\ w[1] = "enable" /\ w[2] = h) =>
                    /\ gpioLevel' = gpioLevel
                    /\ clk_gpio_is_enabled(h)' = clk_gpio_is_enabled(h)
             /\ (clk_gpio_disable(h) /\ w[1] = "disable" /\ w[2] = h) =>
                    /\ gpioLevel' = gpioLevel
                    /\ clk_gpio_is_enabled(h)' = clk_gpio_is_enabled(h)]_vars

\* a gate was enabled twice in a row
C9_Witness ==
    \E h \in Handles :
        /\ lastWrite[gate[h].gpio] = <<"enable", h, TRUE>>
        /\ clk_gpio_is_enabled(h) = 1

\* C10: at most one thread is between the cache check and the end of its
\* construction attempt, and that thread holds data->lock.
C10_MutualExclusion ==
    /\ Cardinality({t \in Threads : pc[t] \in ConstructionPcs}) <= 1
    /\ \A t \in Threads : pc[t] \in ConstructionPcs => lock = t

\* one thread is registering while another waits for the lock
C10_Witness ==
    \E t, u \in Threads :
        /\ t # u
        /\ pc[t] = "register" /\ lock = t
        /\ pc[u] = "lock"

\* C11: whenever no of_clk_gpio_delayed_register_get call is in progress, the
\* line of the node is held through this file exactly when data->clk is set,
\* and a struct clk_gpio is allocated exactly when data->clk is set; a failed
\* call leaves neither behind.
C11_NoLeakedOwnership ==
    (\A t \in Threads : pc[t] = "idle") =>
        /\ (gpioOwner[node.gpio] > 0) <=> (data_clk # NULL)
        /\ (heap.live # {}) <=> (data_clk # NULL)
        /\ \A g \in Gpios \ {node.gpio} : gpioOwner[g] <= 0

\* a call that had acquired the line and the record failed at registration
C11_Witness ==
    /\ \A t \in Threads : pc[t] = "idle"
    /\ data_clk = NULL
    /\ \E i \in DOMAIN trace :
          /\ trace[i].cnt.reqOk = 1
          /\ trace[i].cnt.allocOk = 1
          /\ trace[i].cnt.regOk = 0
          /\ trace[i].ret < 0

\* the finished call i failed inside clk_register_gpio
ConstructFailed(i) == trace[i].cnt.req = 1 /\ trace[i].ret < 0

\* C12: a call that fails inside clk_register_gpio returns that error and
\* leaves data->clk NULL (an error value is never stored), and the call that
\* gets the mutex next starts over with the lookup, then the GPIO request,
\* then the registration.
C12_FailureIsRetried ==
    /\ data_clk >= NULL
    /\ \A i \in DOMAIN trace :
          ConstructFailed(i) =>
              /\ trace[i].cache = NULL
              /\ trace[i].cnt.regOk = 0
              /\ trace[i].cnt.reqOk = 0 => trace[i].ret = ERR_PTR(-trace[i].err)
              /\ (trace[i].cnt.alloc = 1 /\ trace[i].cnt.allocOk = 0)
                    => trace[i].ret = ERR_PTR(-ENOMEM)
              /\ trace[i].cnt.reg = 1
                    => trace[i].ret \in {ERR_PTR(-e) : e \in ClkRegisterErrs}
              /\ \A j \in DOMAIN trace :
                    trace[j].seq = trace[i].seq + 1 =>
                        /\ trace[j].startClk = NULL
                        /\ trace[j].cnt.lookup = 1
                        /\ trace[j].ret > 0 =>
                              /\ trace[j].cnt.req = 1
                              /\ trace[j].cnt.alloc = 1
                              /\ trace[j].cnt.reg = 1
                              /\ trace[j].cache = trace[j].ret

\* a registration failure was followed by a call that resolved the clock
C12_Witness ==
    \E i, j \in DOMAIN trace :
        /\ ConstructFailed(i)
        /\ trace[i].cnt.reg = 1
        /\ trace[j].seq = trace[i].seq + 1
        /\ trace[j].ret > 0
        /\ trace[j].cnt.lookup = 1 /\ trace[j].cnt.req = 1
        /\ trace[j].cnt.reg = 1
        /\ data_clk = trace[j].ret

\* the finished call i failed at the "enable-gpios" lookup
LookupFailed(i) ==
    trace[i].cnt.lookup = 1 /\ trace[i].cnt.req = 0 /\ trace[i].ret < 0

\* C13: a failed lookup is logged once when its error is not -EPROBE_DEFER
\* and not at all when it is, and the call returns the error the lookup
\* reported in both cases.
C13_DeferIsNotLogged ==
    \A i \in DOMAIN trace :
        LookupFailed(i) =>
            /\ trace[i].err \in LookupErrs
            /\ trace[i].ret = ERR_PTR(-trace[i].err)
            /\ trace[i].err # EPROBE_DEFER => trace[i].cnt.log = 1
            /\ trace[i].err = EPROBE_DEFER => trace[i].cnt.log = 0
            /\ trace[i].cnt.logReg = 0

\* one call was deferred silently and another failed with a logged error
C13_Witness ==
    \E i, j \in DOMAIN trace :
        /\ LookupFailed(i) /\ trace[i].ret = ERR_PTR(-EPROBE_DEFER)
        /\ trace[i].cnt.log = 0
        /\ LookupFailed(j) /\ trace[j].ret = ERR_PTR(-EINVAL)
        /\ trace[j].cnt.log = 1

\* C14: a call made when data->clk is already set returns it and does nothing
\* else: no lookup, no GPIO request, no allocation, no registration, and the
\* GPIO lines, their levels and data->clk stay as they are.
C14_FastPathFrame ==
    [][\A t \in Threads :
          (loc[t].caller = "resolve" /\ loc[t].startClk # NULL
              /\ pc'[t] # pc[t]) =>
              /\ UNCHANGED <<data_clk, gpioLevel, gpioOwner, heap, gate,
                             lastWrite, tot>>
              /\ cnt'[t] = ZeroCnt
              /\ pc'[t] = "idle" =>
                    /\ Len(trace') = Len(trace) + 1
                    /\ trace'[Len(trace')].ret = loc[t].startClk
                    /\ trace'[Len(trace')].cnt = ZeroCnt]_vars

\* a call that started after the resolution has returned the cached handle,
\* the gate having been driven in the meantime
C14_Witness ==
    /\ data_clk # NULL
    /\ lastWrite[node.gpio][1] = "disable"
    /\ \E i \in DOMAIN trace :
          /\ trace[i].startClk = data_clk
          /\ trace[i].ret = data_clk
          /\ trace[i].cnt = ZeroCnt

\* the level at which the gate behind handle h is on
ActiveLevel(h) == IF gate[h].active_low THEN 0 ELSE 1

\* C15: clk_gpio_enable drives the line high when active_low is false and
\* low when it is true, clk_gpio_disable drives the opposite level, and
\* clk_gpio_is_enabled is true exactly when the line is at the active level.
C15_LevelsFollowPolarity ==
    \A h \in Handles :
        LET g == gate[h].gpio
            w == lastWrite[g]
        IN /\ (w[1] = "enable" /\ w[2] = h) =>
                  gpioLevel[g] = (IF gate[h].active_low THEN 0 ELSE 1)
           /\ (w[1] = "disable" /\ w[2] = h) =>
                  gpioLevel[g] = (IF gate[h].active_low THEN 1 ELSE 0)
           /\ (clk_gpio_is_enabled(h) # 0) <=> (gpioLevel[g] = ActiveLevel(h))
           /\ query[1] = h => ((query[2] # 0) <=> (gpioLevel[g] = ActiveLevel(h)))

\* the scenario: an active-low gate disabled, line high, query false
C15_Witness ==
    \E h \in Handles :
        /\ gate[h].active_low
        /\ lastWrite[gate[h].gpio][1] = "disable"
        /\ lastWrite[gate[h].gpio][2] = h
        /\ gpioLevel[gate[h].gpio] = 1
        /\ query = <<h, 0>>

\* C16: clk_gpio_is_enabled reports what the level of the line and the
\* polarity imply at the time of the call, also after another agent wrote
\* the line, and changes neither the line nor the gate.
C16_LiveReadback ==
    [][\A h \in Handles :
          IsEnabled(h) =>
              /\ query' = <<h, IF gpioLevel[gate[h].gpio] = ActiveLevel(h)
                               THEN 1 ELSE 0>>
              /\ UNCHANGED <<gpioLevel, gpioOwner, gate, lastWrite>>]_vars

\* another agent drove the line to the active level and the query saw it
C16_Witness ==
    \E h \in Handles :
        /\ lastWrite[gate[h].gpio][1] = "extern"
        /\ gpioLevel[gate[h].gpio] = ActiveLevel(h)
        /\ query = <<h, 1>>

\* C17: one call of of_clk_gpio_delayed_register_get looks the GPIO up at
\* most once, requests the line at most once and registers the clock at most
\* once, and when one of these fails the call returns the error it reported.
C17_NoInternalRetry ==
    /\ \A t \in Threads :
          /\ cnt[t].lookup <= 1 /\ cnt[t].req <= 1
          /\ cnt[t].alloc <= 1 /\ cnt[t].reg <= 1
    /\ \A i \in DOMAIN trace :
          LET e == trace[i]
          IN /\ e.cnt.lookup <= 1 /\ e.cnt.req <= 1
             /\ e.cnt.alloc <= 1 /\ e.cnt.reg <= 1
             /\ (e.cnt.lookup = 1 /\ e.cnt.req = 0) =>
                    e.err # 0 /\ e.ret = ERR_PTR(-e.err)
             /\ (e.cnt.req = 1 /\ e.cnt.reqOk = 0) =>
                    e.err # 0 /\ e.ret = ERR_PTR(-e.err)
             /\ (e.cnt.reg = 1 /\ e.cnt.regOk = 0) =>
                    e.regErr # 0 /\ e.ret = ERR_PTR(-e.regErr)

\* calls have failed at the lookup, at the request and at the registration
C17_Witness ==
    /\ \E i \in DOMAIN trace :
          /\ trace[i].cnt.lookup = 1 /\ trace[i].cnt.req = 1
          /\ trace[i].cnt.reg = 1 /\ trace[i].cnt.regOk = 0
          /\ trace[i].ret = ERR_PTR(-EEXIST)
    /\ \E i \in DOMAIN trace :
          /\ trace[i].cnt.req = 1 /\ trace[i].cnt.reqOk = 0
          /\ trace[i].ret = ERR_PTR(-EBUSY)
    /\ \E i \in DOMAIN trace :
          /\ trace[i].cnt.lookup = 1 /\ trace[i].cnt.req = 0
          /\ trace[i].ret = ERR_PTR(-EPROBE_DEFER)

\* handle h stands for a gate built for the node: registered, holding the
\* line and the polarity of the node, its line owned and its record allocated
FullyConstructed(h) ==
    /\ h \in Handles
    /\ gate[h].gpio = node.gpio
    /\ gate[h].active_low = (node.flags = OF_GPIO_ACTIVE_LOW)
    /\ gate[h].tok # 0
    /\ gpioOwner[gate[h].gpio] = gate[h].tok
    /\ gate[h].rec \in heap.live

\* C18: every handle a successful of_clk_gpio_delayed_register_get returned,
\* and data->clk whenever it is set, is a registered gate whose GPIO line is
\* owned and whose record holds the line and polarity of the node; such a
\* gate is never rolled back.
C18_ResolvedIsConstructed ==
    /\ data_clk # NULL => FullyConstructed(data_clk)
    /\ \A i \in DOMAIN trace :
          ~IS_ERR(trace[i].ret) =>
              /\ FullyConstructed(trace[i].ret)
              /\ trace[i].ret = data_clk

\* an active-low node resolved after a failure, one call having built the
\* gate and another one having got it from data->clk
C18_Witness ==
    /\ node.flags = OF_GPIO_ACTIVE_LOW
    /\ tot.fail > 0
    /\ data_clk \in Handles
    /\ \E i \in DOMAIN trace :
          trace[i].ret = data_clk /\ trace[i].cnt.regOk = 1
    /\ \E i \in DOMAIN trace :
          trace[i].ret = data_clk /\ trace[i].cnt.lookup = 0

\* C19: the mutex is held only by a call between its lock and its unlock, so
\* it is free whenever no call is in progress, and under fair scheduling
\* every call of of_clk_gpio_delayed_register_get that starts returns.
C19_GuardReleased ==
    /\ [](lock # 0 => pc[lock] \in {"check"} \cup ConstructionPcs)
    /\ []((\A t \in Threads : pc[t] = "idle") => lock = 0)
    /\ \A t \in Threads : (pc[t] # "idle") ~> (pc[t] = "idle")

\* every call has returned and the mutex is free, one call having failed in
\* construction, one having built the gate and one having taken the fast path
C19_Witness ==
    /\ \A t \in Threads : pc[t] = "idle"
    /\ lock = 0
    /\ \E i \in DOMAIN trace :
          trace[i].cnt.reqOk = 1 /\ IS_ERR(trace[i].ret)
    /\ \E i \in DOMAIN trace : trace[i].cnt.regOk = 1
    /\ \E i \in DOMAIN trace :
          trace[i].cnt.lookup = 0 /\ trace[i].ret = data_clk

\* C20: a call started after the collaborators stopped failing returns the
\* gate whatever failed before it, and once such a call is in progress
\* data->clk eventually holds the handle of the gate.
C20_RecoveryByRecall ==
    /\ [](\A i \in DOMAIN trace :
             trace[i].afterFaults =>
                 trace[i].ret \in Handles /\ trace[i].ret = data_clk)
    /\ (\E t \in Threads : pc[t] # "idle" /\ loc[t].afterFaults)
           ~> (data_clk \in Handles)

\* two calls failed, one of them after it had taken the GPIO line, and a
\* call started after the faults ended built the gate
C20_Witness ==
    /\ ~faults
    /\ tot.fail >= 2
    /\ data_clk \in Handles
    /\ \E i \in DOMAIN trace :
          /\ ~trace[i].afterFaults
          /\ trace[i].cnt.reqOk = 1 /\ IS_ERR(trace[i].ret)
    /\ \E i \in DOMAIN trace :
          /\ trace[i].afterFaults
          /\ trace[i].cnt.regOk = 1 /\ trace[i].ret = data_clk

====
